---- MODULE Spec2Model ----
(***************************************************************************)
(* Model of octo-tree: the server-side build cache (createApp: resolveRef, *)
(* buildTreeForRef, refreshTreeForRef), the core builder                   *)
(* (buildRepositoryTree with resolveGitRef, the two listers, the insertion *)
(* of entries and the sort and aggregation passes), the HTTP error mapping *)
(* (handleTreeRequest), the git ls-tree subprocess (runGitCommand,         *)
(* listFilesAtTree) and the CLI's sampleCommits.                           *)
(*                                                                         *)
(* Scheduling follows the JavaScript event loop.  getTree / refreshTree    *)
(* calls, build completions and stats completions are tasks; the           *)
(* continuation of every `await promise` is a microtask, and the microtask *)
(* queue is drained before the next task runs.                             *)
(***************************************************************************)
EXTENDS Integers, Sequences, FiniteSets, TLC

\* ------------------------------------------------------------------ bounds
\* Total number of getTree / refreshTree calls made on one cache.
MaxCalls == 3
\* Number of files one listing names.
MaxEntries == 3
\* Number of lines one git ls-tree run prints.
MaxLines == 2
\* Length of the commit list and size of the frame budget given to sampleCommits.
MaxCommits == 9
MaxFrames == 6

\* ----------------------------------------------------------------- strings
\* A string is a sequence of one-character strings.
Whitespace == {" "}
HEAD == <<"H", "E", "A", "D">>
main == <<"m">>
\* The absent argument of `requestedRef?: string`; no string equals it.
Undefined == <<"undefined">>

\* The arguments callers pass as requestedRef: none, or "HEAD" as a query
\* string value with a leading blank.
RequestedRefs == {Undefined, <<" ">> \o HEAD}

RECURSIVE trimStart(_)
trimStart(s) ==
    IF s = <<>> THEN s
    ELSE IF Head(s) \in Whitespace THEN trimStart(Tail(s)) ELSE s

RECURSIVE trimEnd(_)
trimEnd(s) ==
    IF s = <<>> THEN s
    ELSE IF s[Len(s)] \in Whitespace THEN trimEnd(SubSeq(s, 1, Len(s) - 1)) ELSE s

\* String.prototype.trim
trim(s) == trimEnd(trimStart(s))

\* The null of `number | null`.
NullMs == -1

\* ------------------------------------------------------------------- state
VARIABLES
    defaultRef,                 \* createApp parameter
    allowFallbackToWorkingTree, \* createApp parameter
    buildPromises,              \* Map<string, Promise<TreeNode>>: key -> build
    builds,                     \* every promise returned by buildTree, in start order
    calls,                      \* every buildTreeForRef invocation (async frame)
    microtasks,                 \* queued continuations of `await promise`
    \* one buildRepositoryTree invocation
    options,                    \* BuildTreeOptions: ref, allowFallbackToWorkingTree
    bpc,                        \* position inside buildRepositoryTree
    targetRef,                  \* ref ?? 'HEAD'
    objectType,                 \* output of git cat-file -t
    commitHash,                 \* ResolvedRef.commitHash: an object id or "null"
    commitTimestampMs,          \* value returned by buildTreeFromCommit, NullMs for null
    thrown,                     \* class of the error in flight or propagated
    failure,                    \* what made the first failing step fail
    lister,                     \* which lister filled the tree
    tree,                       \* rootNode and what it reaches, nodeMap, childIdMap
    resolvedRef,                \* output of git rev-parse --verify <ref>
    treeHash,                   \* ResolvedRef.treeHash
    entries,                    \* the entries the insertion loop goes through
    gitManagedFiles,            \* output of git ls-files
    statResults,                \* what fs.stat did for each listed file
    timestampLookups,           \* number of getCommitTimestampMs calls
    showOutcome,                \* how git show -s --format=%ct ended
    \* one HTTP request
    request,                    \* route and req.query.ref
    hpc,                        \* position inside handleTreeRequest
    handlerArg,                 \* the requestedRef passed to the handler
    settled,                    \* how the handler's promise settled
    responses,                  \* every response sent on res, in order
    consoleErrors,              \* every error passed to console.error
    \* one git ls-tree subprocess
    gitOutput,                  \* everything the subprocess prints
    delivered,                  \* how much of it has arrived in 'data' events
    stdout,                     \* the string runGitCommand accumulates
    lpc,                        \* position inside listFilesAtTree
    listing,                    \* the entries listFilesAtTree returns
    \* one sampleCommits call
    commits,                    \* argument: the commit list
    maxFrames,                  \* argument: the frame budget
    sampled,                    \* the returned list
    spc,                        \* position of the call
    \* one git ls-files subprocess
    lsOutput,                   \* everything the subprocess prints
    lsDelivered,                \* how much of it has arrived in 'data' events
    buffer,                     \* listGitManagedFiles: the unfinished line
    pushedFiles,                \* listGitManagedFiles: `files`, the lines pushed so far
    fpc,                        \* position of the listGitManagedFiles promise
    lsExitCode,                 \* the code of the 'close' event, -1 before it
    lsChunks,                   \* how many 'data' events there were
    \* one startServer call
    serverRef,                  \* ServerOptions.ref
    repository,                 \* whether the repository has a commit yet
    server,                     \* position inside startServer
    \* one frame loop of the video command
    requestedFrames,            \* commitsToRender.length
    loopIndex,                  \* the loop variable `index`
    capturedFrames,
    skippedFrames,
    frameWrites,                \* every write of a frame file, in order
    vpc                         \* position inside the loop

cacheVars == <<defaultRef, allowFallbackToWorkingTree, buildPromises, builds, calls, microtasks>>
builderVars == <<options, bpc, targetRef, objectType, commitHash, commitTimestampMs,
                 thrown, failure, lister>>
treeVars == <<tree, resolvedRef, treeHash, entries, gitManagedFiles, statResults,
              timestampLookups, showOutcome>>
httpVars == <<request, hpc, handlerArg, settled, responses, consoleErrors>>
listingVars == <<gitOutput, delivered, stdout, lpc, listing>>
sampleVars == <<commits, maxFrames, sampled, spc>>
filesVars == <<lsOutput, lsDelivered, buffer, pushedFiles, fpc, lsExitCode, lsChunks>>
serverVars == <<serverRef, repository, server>>
videoVars == <<requestedFrames, loopIndex, capturedFrames, skippedFrames, frameWrites, vpc>>
extraVars == <<filesVars, serverVars, videoVars>>
otherVars == <<httpVars, listingVars, sampleVars, extraVars>>
restVars == <<builderVars, treeVars, otherVars>>
vars == <<cacheVars, restVars>>

\* ----------------------------------------------------------- Map<K, V> ops
EmptyMap == [k \in {} |-> 0]
MapHas(m, k) == k \in DOMAIN m
MapSet(m, k, v) == [x \in (DOMAIN m) \cup {k} |-> IF x = k THEN v ELSE m[x]]
MapDelete(m, k) == [x \in (DOMAIN m) \ {k} |-> m[x]]

\* -------------------------------------------------------------- tree nodes
\* A repository-relative path is held as its sequence of '/'-separated
\* segments; '.' is the path of the root.
Dot == <<".">>
joinRelative(parent, segment) ==
    IF parent = Dot THEN <<segment>> ELSE Append(parent, segment)

\* `${type}:${relativePath}`
makeId(relativePath, type) == <<type>> \o relativePath
RootId == makeId(Dot, "directory")

\* Faulty variant: every directory is created with the depth of the root.
createDirectoryNodeAtDepthZero(relativePath, name, depth, mtimeMs) ==
    [id |-> makeId(relativePath, "directory"), name |-> name,
     relativePath |-> relativePath, type |-> "directory", size |-> 0,
     mtimeMs |-> mtimeMs, depth |-> 0, children |-> <<>>]

createDirectoryNode(relativePath, name, depth, mtimeMs) ==
    [id |-> makeId(relativePath, "directory"), name |-> name,
     relativePath |-> relativePath, type |-> "directory", size |-> 0,
     mtimeMs |-> mtimeMs, depth |-> depth, children |-> <<>>]

createFileNode(relativePath, name, depth, size, mtimeMs) ==
    [id |-> makeId(relativePath, "file"), name |-> name,
     relativePath |-> relativePath, type |-> "file", size |-> size,
     mtimeMs |-> mtimeMs, depth |-> depth, children |-> <<>>]

\* The objects of one build: nodes by id (children hold ids, in array
\* order), nodeMap from path to node, childIdMap as the set of its keys.
EmptyTree == [nodes |-> EmptyMap, nodeMap |-> EmptyMap, childIdMap |-> {}]

\* createDirectoryNode('.', repoName, 0) and the two map entries for it.
NewTree ==
    [nodes |-> MapSet(EmptyMap, RootId, createDirectoryNode(Dot, "repo", 0, 0)),
     nodeMap |-> MapSet(EmptyMap, Dot, RootId),
     childIdMap |-> {RootId}]

\* Faulty variant: the child is pushed without looking it up in childIdMap.
ensureChildAlwaysPushes(t, parent, child) ==
    [t EXCEPT !.nodes = MapSet([@ EXCEPT ![parent].children = Append(@, child.id)],
                               child.id, child),
              !.childIdMap = @ \cup {child.id}]

ensureChild(t, parent, child) ==
    IF child.id \in t.childIdMap
    THEN t
    ELSE [t EXCEPT !.nodes = MapSet([@ EXCEPT ![parent].children = Append(@, child.id)],
                                    child.id, child),
                   !.childIdMap = @ \cup {child.id}]

\* Faulty variant: the directories of a path are created and its file is not.
RECURSIVE insertSegmentsWithoutLeaf(_, _, _, _, _, _, _)
insertSegmentsWithoutLeaf(t, segments, index, currentPath, parentNode, size, mtimeMs) ==
    IF index >= Len(segments) THEN t
    ELSE
        LET segment == segments[index]
            nextPath == joinRelative(currentPath, segment)
            depth == t.nodes[parentNode].depth + 1
        IN  IF MapHas(t.nodeMap, nextPath)
            THEN insertSegmentsWithoutLeaf(t, segments, index + 1, nextPath,
                                           t.nodeMap[nextPath], size, mtimeMs)
            ELSE LET directoryNode == createDirectoryNode(nextPath, segment, depth, mtimeMs)
                     t1 == ensureChild([t EXCEPT !.nodeMap =
                                            MapSet(@, nextPath, directoryNode.id)],
                                       parentNode, directoryNode)
                 IN  insertSegmentsWithoutLeaf(t1, segments, index + 1, nextPath,
                                               directoryNode.id, size, mtimeMs)

\* The loop of insertFileNode from segment `index` on.
RECURSIVE insertSegments(_, _, _, _, _, _, _)
insertSegments(t, segments, index, currentPath, parentNode, size, mtimeMs) ==
    IF index > Len(segments) THEN t
    ELSE
        LET segment == segments[index]
            isLeaf == index = Len(segments)
            nextPath == joinRelative(currentPath, segment)
            depth == t.nodes[parentNode].depth + 1
        IN  IF isLeaf
            THEN LET fileNode == createFileNode(nextPath, segment, depth, size, mtimeMs)
                 IN  ensureChild([t EXCEPT !.nodeMap = MapSet(@, nextPath, fileNode.id)],
                                 parentNode, fileNode)
            ELSE IF MapHas(t.nodeMap, nextPath)
            THEN insertSegments(t, segments, index + 1, nextPath,
                                t.nodeMap[nextPath], size, mtimeMs)
            ELSE LET directoryNode == createDirectoryNode(nextPath, segment, depth, mtimeMs)
                     t1 == ensureChild([t EXCEPT !.nodeMap =
                                            MapSet(@, nextPath, directoryNode.id)],
                                       parentNode, directoryNode)
                 IN  insertSegments(t1, segments, index + 1, nextPath,
                                    directoryNode.id, size, mtimeMs)

insertFileNode(t, gitPath, size, mtimeMs) ==
    insertSegments(t, gitPath, 1, Dot, RootId, size, mtimeMs)

\* Faulty variant: the loop stops before the last entry.
RECURSIVE insertEntriesButLast(_, _)
insertEntriesButLast(t, es) ==
    IF Len(es) <= 1 THEN t
    ELSE insertEntriesButLast(insertFileNode(t, Head(es).path, Head(es).size,
                                             Head(es).mtimeMs),
                              Tail(es))

\* for (const entry of entries) insertFileNode(...)
RECURSIVE insertEntries(_, _)
insertEntries(t, es) ==
    IF es = <<>> THEN t
    ELSE insertEntries(insertFileNode(t, Head(es).path, Head(es).size, Head(es).mtimeMs),
                       Tail(es))

\* String.prototype.localeCompare on the names that occur: the collation
\* puts a lower-case letter before its upper-case form and both before the
\* next letter, unlike the order of the character codes ("B" < "a").
Collation == <<"a", "b", "B", "c", "d">>
Rank(name) == CHOOSE i \in 1..Len(Collation) : Collation[i] = name
localeCompare(x, y) ==
    IF Rank(x) < Rank(y) THEN -1 ELSE IF Rank(x) > Rank(y) THEN 1 ELSE 0

\* Faulty variant: compares names only.
compareChildrenByNameOnly(ns, a, b) == localeCompare(ns[a].name, ns[b].name)

\* The comparator given to children.sort.
compareChildren(ns, a, b) ==
    IF ns[a].type = ns[b].type
    THEN localeCompare(ns[a].name, ns[b].name)
    ELSE IF ns[a].type = "directory" THEN -1 ELSE 1

\* Array.prototype.sort, which is stable: each element goes behind every
\* element that does not compare greater.
RECURSIVE insertSorted(_, _, _)
insertSorted(ns, sorted, x) ==
    IF sorted = <<>> THEN <<x>>
    ELSE IF compareChildren(ns, sorted[Len(sorted)], x) <= 0
         THEN Append(sorted, x)
         ELSE Append(insertSorted(ns, SubSeq(sorted, 1, Len(sorted) - 1), x),
                     sorted[Len(sorted)])

RECURSIVE ArraySort(_, _)
ArraySort(ns, s) ==
    IF s = <<>> THEN <<>>
    ELSE insertSorted(ns, ArraySort(ns, SubSeq(s, 1, Len(s) - 1)), s[Len(s)])

RECURSIVE sortChildrenRecursively(_, _)
RECURSIVE sortEach(_, _, _)
\* node.children.forEach(sortChildrenRecursively)
sortEach(ns, kids, i) ==
    IF i > Len(kids) THEN ns
    ELSE sortEach(sortChildrenRecursively(ns, kids[i]), kids, i + 1)

\* Faulty variant: sorts the children of the node it is given only.
sortChildrenOnce(ns, node) ==
    [ns EXCEPT ![node].children = ArraySort(ns, ns[node].children)]

sortChildrenRecursively(ns, node) ==
    LET sorted == ArraySort(ns, ns[node].children)
    IN  sortEach([ns EXCEPT ![node].children = sorted], sorted, 1)

Max(a, b) == IF a >= b THEN a ELSE b

RECURSIVE aggregateDirectoryMetadata(_, _)
RECURSIVE aggregateChildren(_, _, _, _, _)
\* for (const child of node.children) { ... }
aggregateChildren(ns, kids, i, totalSize, latestMtime) ==
    IF i > Len(kids)
    THEN [nodes |-> ns, size |-> totalSize, mtimeMs |-> latestMtime]
    ELSE LET childMetrics == aggregateDirectoryMetadata(ns, kids[i])
         IN  aggregateChildren(childMetrics.nodes, kids, i + 1,
                               totalSize + childMetrics.size,
                               Max(latestMtime, childMetrics.mtimeMs))

\* Faulty variant: every node reports the metrics it was created with.
aggregateNothing(ns, node) ==
    [nodes |-> ns, size |-> ns[node].size, mtimeMs |-> ns[node].mtimeMs]

\* Returns the metrics of the node and the nodes as the pass leaves them.
aggregateDirectoryMetadata(ns, node) ==
    IF ns[node].type = "file"
    THEN [nodes |-> ns, size |-> ns[node].size, mtimeMs |-> ns[node].mtimeMs]
    ELSE LET r == aggregateChildren(ns, ns[node].children, 1, 0, ns[node].mtimeMs)
         IN  [nodes |-> [r.nodes EXCEPT ![node].size = r.size,
                                         ![node].mtimeMs = r.mtimeMs],
              size |-> r.size, mtimeMs |-> r.mtimeMs]
\* ---------------------------------------------------------------- resolveRef
\* Faulty variant: the explicit branch keeps the configured fallback flag.
resolveRefKeepsFallback(requestedRef) ==
    IF requestedRef # Undefined /\ trim(requestedRef) # <<>>
    THEN [key |-> trim(requestedRef), refForBuild |-> trim(requestedRef),
          allowFallback |-> allowFallbackToWorkingTree]
    ELSE [key |-> defaultRef, refForBuild |-> defaultRef,
          allowFallback |-> allowFallbackToWorkingTree]

\* Faulty variant: every request shares the default key.
resolveRefSingleKey(requestedRef) ==
    IF requestedRef # Undefined /\ trim(requestedRef) # <<>>
    THEN [key |-> defaultRef, refForBuild |-> trim(requestedRef),
          allowFallback |-> FALSE]
    ELSE [key |-> defaultRef, refForBuild |-> defaultRef,
          allowFallback |-> allowFallbackToWorkingTree]

resolveRef(requestedRef) ==
    IF requestedRef # Undefined /\ trim(requestedRef) # <<>>
    THEN [key |-> trim(requestedRef), refForBuild |-> trim(requestedRef),
          allowFallback |-> FALSE]
    ELSE [key |-> defaultRef, refForBuild |-> defaultRef,
          allowFallback |-> allowFallbackToWorkingTree]

\* ------------------------------------------------------------------ history
BuildIds == 1..Len(builds)
CallIds == 1..Len(calls)

\* Builds registered under key k, and those of them not yet settled.
BuildsForKey(k) == {b \in BuildIds : builds[b].key = k}
PendingForKey(k) == {b \in BuildsForKey(k) : builds[b].state = "pending"}
Latest(S) == IF S = {} THEN 0 ELSE CHOOSE b \in S : \A o \in S : o <= b

\* ------------------------------------------------------------ buildTreeForRef
\* Lines 47-60: resolve the key, reuse or start the build, suspend on it.
\* `map` is buildPromises as the caller left it.
EnterAlwaysBuilds(requestedRef, op, map) ==
    LET r == resolveRef(requestedRef)
        id == Len(builds) + 1
    IN  /\ builds' = Append(builds, [key |-> r.key, ref |-> r.refForBuild,
                                     allowFallbackToWorkingTree |-> r.allowFallback,
                                     state |-> "pending", startedBy |-> Len(calls) + 1])
        /\ buildPromises' = MapSet(map, r.key, id)
        /\ calls' = Append(calls, [op |-> op, requestedRef |-> requestedRef,
                                   key |-> r.key, refForBuild |-> r.refForBuild,
                                   promise |-> id, started |-> TRUE,
                                   pc |-> "awaitBuild", tree |-> 0, error |-> 0,
                                   arrivalLatest |-> Latest(BuildsForKey(r.key)),
                                   arrivalPending |-> PendingForKey(r.key)])
        /\ microtasks' = microtasks

Enter(requestedRef, op, map) ==
    LET r == resolveRef(requestedRef)
        miss == ~MapHas(map, r.key)
        id == Len(builds) + 1
        promise == IF miss THEN id ELSE map[r.key]
        me == Len(calls) + 1
    IN  /\ builds' = IF miss
                     THEN Append(builds, [key |-> r.key, ref |-> r.refForBuild,
                                          allowFallbackToWorkingTree |-> r.allowFallback,
                                          state |-> "pending", startedBy |-> me])
                     ELSE builds
        /\ buildPromises' = IF miss THEN MapSet(map, r.key, id) ELSE map
        /\ calls' = Append(calls, [op |-> op, requestedRef |-> requestedRef,
                                   key |-> r.key, refForBuild |-> r.refForBuild,
                                   promise |-> promise, started |-> miss,
                                   pc |-> "awaitBuild", tree |-> 0, error |-> 0,
                                   arrivalLatest |-> Latest(BuildsForKey(r.key)),
                                   arrivalPending |-> PendingForKey(r.key)])
        \* awaiting an already settled promise queues the continuation at once
        /\ microtasks' = IF ~miss /\ builds[promise].state # "pending"
                         THEN Append(microtasks, me)
                         ELSE microtasks

\* A getTree call: the synchronous part of buildTreeForRef.
buildTreeForRef(requestedRef) ==
    /\ microtasks = <<>>
    /\ Len(calls) < MaxCalls
    /\ Enter(requestedRef, "getTree", buildPromises)
    /\ UNCHANGED <<defaultRef, allowFallbackToWorkingTree, restVars>>

\* ---------------------------------------------------------- refreshTreeForRef
\* Faulty variant: refresh without the delete.
refreshTreeForRefNoDelete(requestedRef) ==
    /\ microtasks = <<>>
    /\ Len(calls) < MaxCalls
    /\ Enter(requestedRef, "refreshTree", buildPromises)
    /\ UNCHANGED <<defaultRef, allowFallbackToWorkingTree, restVars>>

refreshTreeForRef(requestedRef) ==
    /\ microtasks = <<>>
    /\ Len(calls) < MaxCalls
    /\ Enter(requestedRef, "refreshTree",
             MapDelete(buildPromises, resolveRef(requestedRef).key))
    /\ UNCHANGED <<defaultRef, allowFallbackToWorkingTree, restVars>>

\* ---------------------------------------------------------------- promises
\* The promise returned by buildTree settles: every frame suspended on it
\* gets its continuation queued, in the order the frames subscribed.
Waiters(b) == {c \in CallIds : calls[c].promise = b /\ calls[c].pc = "awaitBuild"}

RECURSIVE InOrder(_)
InOrder(S) ==
    IF S = {} THEN <<>>
    ELSE LET c == CHOOSE x \in S : \A y \in S : x <= y
         IN  <<c>> \o InOrder(S \ {c})

\* Faulty variant: only the frame that subscribed first is woken.
BuildSettlesWakesFirst(b, state) ==
    /\ microtasks = <<>>
    /\ builds[b].state = "pending"
    /\ builds' = [builds EXCEPT ![b].state = state]
    /\ microtasks' = SubSeq(InOrder(Waiters(b)), 1, 1)
    /\ UNCHANGED <<defaultRef, allowFallbackToWorkingTree, buildPromises, calls, restVars>>

BuildSettles(b, state) ==
    /\ microtasks = <<>>
    /\ builds[b].state = "pending"
    /\ builds' = [builds EXCEPT ![b].state = state]
    /\ microtasks' = InOrder(Waiters(b))
    /\ UNCHANGED <<defaultRef, allowFallbackToWorkingTree, buildPromises, calls, restVars>>

\* Lines 58-65: the continuation of `await promise`.  The finally block
\* deletes the key, then the frame either goes on to collectStats or rethrows.
\* Faulty variant: the finally block is skipped when the build was rejected.
ResumeKeepsFailed(c) ==
    LET b == calls[c].promise
    IN  /\ buildPromises' = IF builds[b].state = "fulfilled"
                            THEN MapDelete(buildPromises, calls[c].key)
                            ELSE buildPromises
        /\ calls' = IF builds[b].state = "fulfilled"
                    THEN [calls EXCEPT ![c].tree = b, ![c].pc = "awaitStats"]
                    ELSE [calls EXCEPT ![c].error = b, ![c].pc = "threw"]

\* Faulty variant: the settled promise stays in the map.
ResumeKeepsPromise(c) ==
    LET b == calls[c].promise
    IN  /\ buildPromises' = buildPromises
        /\ calls' = IF builds[b].state = "fulfilled"
                    THEN [calls EXCEPT ![c].tree = b, ![c].pc = "awaitStats"]
                    ELSE [calls EXCEPT ![c].error = b, ![c].pc = "threw"]

Resume(c) ==
    LET b == calls[c].promise
    IN  /\ buildPromises' = MapDelete(buildPromises, calls[c].key)
        /\ calls' = IF builds[b].state = "fulfilled"
                    THEN [calls EXCEPT ![c].tree = b, ![c].pc = "awaitStats"]
                    ELSE [calls EXCEPT ![c].error = b, ![c].pc = "threw"]

RunMicrotask ==
    /\ microtasks # <<>>
    /\ Resume(Head(microtasks))
    /\ microtasks' = Tail(microtasks)
    /\ UNCHANGED <<defaultRef, allowFallbackToWorkingTree, builds, restVars>>

\* Lines 65-71: collectStats never rejects; once it resolves the frame
\* returns its entry.
StatsSettles(c) ==
    /\ microtasks = <<>>
    /\ calls[c].pc = "awaitStats"
    /\ calls' = [calls EXCEPT ![c].pc = "returned"]
    /\ UNCHANGED <<defaultRef, allowFallbackToWorkingTree, buildPromises, builds, microtasks, restVars>>

\* ------------------------------------------------------------ specification
\* No buildRepositoryTree invocation is being followed.
BuilderIdle ==
    /\ options = [ref |-> Undefined, allowFallbackToWorkingTree |-> FALSE]
    /\ bpc = "idle"
    /\ targetRef = Undefined
    /\ objectType = "none"
    /\ commitHash = "null"
    /\ commitTimestampMs = NullMs
    /\ thrown = "none"
    /\ failure = "none"
    /\ lister = "none"

\* No tree is being assembled.
TreeIdle ==
    /\ tree = EmptyTree
    /\ resolvedRef = "none"
    /\ treeHash = "none"
    /\ entries = <<>>
    /\ gitManagedFiles = <<>>
    /\ statResults = <<>>
    /\ timestampLookups = 0
    /\ showOutcome = [kind |-> "notIssued", seconds |-> 0]

\* No request is being handled.
HttpIdle ==
    /\ request = [route |-> "none", query |-> Undefined]
    /\ hpc = "idle"
    /\ handlerArg = Undefined
    /\ settled = [state |-> "pending", class |-> "none", message |-> "none"]
    /\ responses = <<>>
    /\ consoleErrors = <<>>

\* No subprocess is running.
ListingIdle ==
    /\ gitOutput = <<>>
    /\ delivered = 0
    /\ stdout = <<>>
    /\ lpc = "idle"
    /\ listing = <<>>

\* No sampling is going on.
SampleIdle ==
    /\ commits = <<>>
    /\ maxFrames = 1
    /\ sampled = <<>>
    /\ spc = "idle"

\* No git ls-files subprocess is running.
FilesIdle ==
    /\ lsOutput = <<>>
    /\ lsDelivered = 0
    /\ buffer = <<>>
    /\ pushedFiles = <<>>
    /\ fpc = "idle"
    /\ lsExitCode = -1
    /\ lsChunks = 0

\* startServer has not been called.
ServerIdle ==
    /\ serverRef = Undefined
    /\ repository = "commits"
    /\ server = "idle"

\* No video is being rendered.
VideoIdle ==
    /\ requestedFrames = 0
    /\ loopIndex = 0
    /\ capturedFrames = 0
    /\ skippedFrames = 0
    /\ frameWrites = <<>>
    /\ vpc = "idle"

ExtrasIdle == FilesIdle /\ ServerIdle /\ VideoIdle
OthersIdle == HttpIdle /\ ListingIdle /\ SampleIdle /\ ExtrasIdle

\* A cache nothing was asked of.
CacheIdle ==
    /\ defaultRef = HEAD
    /\ allowFallbackToWorkingTree = FALSE
    /\ buildPromises = EmptyMap
    /\ builds = <<>>
    /\ calls = <<>>
    /\ microtasks = <<>>

Init ==
    /\ defaultRef \in {HEAD, main}
    /\ allowFallbackToWorkingTree \in BOOLEAN
    /\ buildPromises = EmptyMap
    /\ builds = <<>>
    /\ calls = <<>>
    /\ microtasks = <<>>
    /\ BuilderIdle
    /\ TreeIdle
    /\ OthersIdle

Next ==
    \/ \E r \in RequestedRefs : buildTreeForRef(r)
    \/ \E r \in RequestedRefs : refreshTreeForRef(r)
    \/ \E b \in BuildIds, s \in {"fulfilled", "rejected"} : BuildSettles(b, s)
    \/ RunMicrotask
    \/ \E c \in CallIds : StatsSettles(c)

Spec == Init /\ [][Next]_vars

\* The same cache under the scheduling the event loop gives: a queued
\* continuation is run, a started build settles, a started collectStats
\* settles.  Calls arrive at most MaxLiveCalls times.
MaxLiveCalls == 2

NextLive ==
    \/ \E r \in RequestedRefs : Len(calls) < MaxLiveCalls /\ buildTreeForRef(r)
    \/ \E r \in RequestedRefs : Len(calls) < MaxLiveCalls /\ refreshTreeForRef(r)
    \/ \E b \in BuildIds, s \in {"fulfilled", "rejected"} : BuildSettles(b, s)
    \/ RunMicrotask
    \/ \E c \in CallIds : StatsSettles(c)

Fairness ==
    /\ WF_vars(RunMicrotask)
    /\ \A b \in 1..MaxLiveCalls :
          WF_vars(b \in BuildIds /\ \E s \in {"fulfilled", "rejected"} : BuildSettles(b, s))
    /\ \A c \in 1..MaxLiveCalls :
          WF_vars(c \in CallIds /\ StatsSettles(c))

SpecLive == Init /\ [][NextLive]_vars /\ Fairness

\* -------------------------------------------------- key derivation in detail
\* A single call on a fresh cache, with requestedRef drawn from every string
\* over RefChars up to MaxRefLen.
MaxRefLen == 3
RefChars == {" ", "m"}

RECURSIVE StringsUpTo(_)
StringsUpTo(n) ==
    IF n = 0 THEN {<<>>}
    ELSE LET shorter == StringsUpTo(n - 1)
         IN  shorter \cup {Append(s, ch) : s \in shorter, ch \in RefChars}

AnyRefs == {Undefined} \cup StringsUpTo(MaxRefLen)

NextKey ==
    \/ \E r \in AnyRefs : calls = <<>> /\ buildTreeForRef(r)
    \/ \E r \in AnyRefs : calls = <<>> /\ refreshTreeForRef(r)
    \/ \E b \in BuildIds, s \in {"fulfilled", "rejected"} : BuildSettles(b, s)
    \/ RunMicrotask
    \/ \E c \in CallIds : StatsSettles(c)

SpecKey == Init /\ [][NextKey]_vars

\* -------------------------------------------------------- buildRepositoryTree
\* One invocation of the core builder, one action per awaited step.  Every
\* git subprocess either exits 0, exits non-zero (runGitCommand rejects with
\* a GitRepositoryError) or cannot be spawned (a plain Error).

\* The refs a build is asked for.
BuildRefs == {Undefined, HEAD, main, <<"v", "1">>}

\* The object store of the repository: a commit and its tree, a tag of the
\* commit, a tag of the tree, a blob, and an object id that names nothing.
GitType(o) ==
    CASE o = "c1" -> "commit"
      [] o = "t1" -> "tree"
      [] o = "g1" -> "tag"
      [] o = "g2" -> "tag"
      [] o = "b1" -> "blob"
      [] OTHER -> "missing"

\* The object a tag tags and the tree a commit records.
TagTarget(o) == IF o = "g1" THEN "c1" ELSE IF o = "g2" THEN "t1" ELSE "none"
TreeOf(o) == IF o = "c1" THEN "t1" ELSE "none"

\* git rev-parse --verify <o>^{kind}: tags are followed to what they tag, a
\* commit gives its tree when a tree is asked for; "none" if the command
\* fails.
RECURSIVE GitPeel(_, _)
GitPeel(o, kind) ==
    IF GitType(o) = kind THEN o
    ELSE IF GitType(o) = "tag" THEN GitPeel(TagTarget(o), kind)
    ELSE IF GitType(o) = "commit" /\ kind = "tree" THEN TreeOf(o)
    ELSE "none"

\* What git rev-parse --verify <ref> can print: HEAD and a branch name a
\* commit, any other revision names any object, and a full object id is
\* printed whether or not the object exists.
ObjectsNamed(ref) ==
    IF ref \in {HEAD, main} THEN {"c1"} ELSE {"c1", "g1", "g2", "t1", "b1", "x0"}

\* The commit time git show prints, in seconds, and what the lookup makes
\* of it: numeric * 1000.
CommitSeconds == {1, 2}
CommitTimes == {s * 1000 : s \in CommitSeconds}

\* How git show -s --format=%ct ends.
ShowOutcomes ==
    [kind : {"time"}, seconds : CommitSeconds]
        \cup [kind : {"notANumber", "nonZeroExit", "spawnError"}, seconds : {0}]

\* getCommitTimestampMs: a GitRepositoryError is rethrown, any other error
\* and an unparsable output give null.
getCommitTimestampMs(outcome) ==
    CASE outcome.kind = "time" -> [threw |-> "none", value |-> outcome.seconds * 1000]
      [] outcome.kind = "notANumber" -> [threw |-> "none", value |-> NullMs]
      [] outcome.kind = "nonZeroExit" -> [threw |-> "GitRepositoryError", value |-> NullMs]
      [] OTHER -> [threw |-> "none", value |-> NullMs]

\* Faulty variant: the rejection is passed on.
catchToNullMissing(r) == r

\* .catch(() => null) on the lookup's promise.
catchToNull(r) ==
    IF r.threw # "none" THEN [threw |-> "none", value |-> NullMs] ELSE r

\* The files a listing can name, in the order git lists paths (by character
\* code); no path is a directory of another.  Their sizes and the
\* modification times fs.stat reports.
GitOrder == << <<"B">>, <<"a", "B">>, <<"b">>, <<"c", "a">>, <<"c", "d", "a">> >>
FilePaths == {GitOrder[i] : i \in 1..Len(GitOrder)}
FileSizes == {1, 2}
StatTimes == {1000, 2000}

\* Sequences of at most n elements of S.
RECURSIVE ListsUpTo(_, _)
ListsUpTo(S, n) ==
    IF n = 0 THEN {<<>>}
    ELSE LET shorter == ListsUpTo(S, n - 1)
         IN  shorter \cup {Append(l, x) : l \in shorter, x \in S}

Range(s) == {s[i] : i \in 1..Len(s)}
Distinct(s) == Cardinality(Range(s)) = Len(s)

\* The elements of s at the positions in P, in the order of s.
RECURSIVE Pick(_, _, _)
Pick(s, P, i) ==
    IF i > Len(s) THEN <<>>
    ELSE (IF i \in P THEN <<s[i]>> ELSE <<>>) \o Pick(s, P, i + 1)

\* What git ls-tree -r prints: at most MaxEntries paths, in git's order, none
\* twice.
PathLists ==
    {Pick(GitOrder, P, 1) :
        P \in {Q \in SUBSET (1..Len(GitOrder)) : Cardinality(Q) <= MaxEntries}}

\* What git ls-files --cached prints: the index entries in git's order, where
\* a path with unmerged stages is printed once per stage.
ManagedFileLists ==
    {[i \in 1..Len(s) |-> GitOrder[s[i]]] :
        s \in {q \in ListsUpTo(1..Len(GitOrder), MaxEntries) :
                  \A i, j \in 1..Len(q) : i < j => q[i] <= q[j]}}

\* The entries listFilesAtTree returns: a path list with a size per entry.
TreeListings ==
    UNION {{[i \in 1..Len(l) |-> [path |-> l[i], size |-> z[i]]] :
               z \in [1..Len(l) -> FileSizes]} : l \in PathLists}

\* What fs.stat does for one file: the stats, or an error code.
StatResults ==
    [code : {"ok"}, size : FileSizes, mtimeMs : StatTimes]
        \cup [code : {"ENOENT", "EACCES"}, size : {0}, mtimeMs : {0}]

Throw(class, cause, at) ==
    /\ thrown' = class
    /\ failure' = cause
    /\ bpc' = at

\* normalizeRepositoryPath: fs.stat, then the isDirectory test.
NormalizeRepositoryPath ==
    /\ bpc = "normalizeRepositoryPath"
    /\ \/ /\ bpc' = "resolveRepoRoot"
          /\ UNCHANGED <<thrown, failure>>
       \/ Throw("GitRepositoryError", "notADirectory", "threw")
       \/ Throw("Error", "stat", "threw")
    /\ UNCHANGED <<cacheVars, options, targetRef, objectType, commitHash,
                   commitTimestampMs, lister, treeVars, otherVars>>

\* resolveRepoRoot, then targetRef = ref ?? 'HEAD', the root node and the
\* two maps.
ResolveRepoRoot ==
    /\ bpc = "resolveRepoRoot"
    /\ \/ /\ bpc' = "revParse"
          /\ targetRef' = IF options.ref = Undefined THEN HEAD ELSE options.ref
          /\ tree' = NewTree
          /\ UNCHANGED <<thrown, failure>>
       \/ /\ Throw("GitRepositoryError", "repositoryNotFound", "threw")
          /\ UNCHANGED <<targetRef, tree>>
    /\ UNCHANGED <<cacheVars, options, objectType, commitHash, commitTimestampMs,
                   lister, resolvedRef, treeHash, entries, gitManagedFiles,
                   statResults, timestampLookups, showOutcome, otherVars>>

\* resolveGitRef: git rev-parse --verify <ref>.
RevParseVerify ==
    /\ bpc = "revParse"
    /\ \/ \E o \in ObjectsNamed(targetRef) :
            /\ resolvedRef' = o
            /\ bpc' = "catFile"
            /\ UNCHANGED <<thrown, failure>>
       \/ /\ Throw("GitRepositoryError",
                   IF targetRef = HEAD THEN "noCommits" ELSE "unknownRef", "catch")
          /\ UNCHANGED resolvedRef
       \/ /\ Throw("Error", "spawn", "catch")
          /\ UNCHANGED resolvedRef
    /\ UNCHANGED <<cacheVars, options, targetRef, objectType, commitHash,
                   commitTimestampMs, lister, tree, treeHash, entries,
                   gitManagedFiles, statResults, timestampLookups, showOutcome, otherVars>>

\* Faulty variant: a tree object is taken for a commit.
classifyTreeAsCommit(resolved, type) ==
    CASE type \in {"commit", "tree"} ->
             [next |-> "peel", treeHash |-> "none", commitHash |-> resolved]
      [] type = "tag" -> [next |-> "peel", treeHash |-> "none", commitHash |-> "null"]
      [] OTHER -> [next |-> "throw", treeHash |-> "none", commitHash |-> "null"]

\* resolveGitRef: the three-way test on the output of cat-file -t.  A
\* commit already has its commitHash, a tree has both results.
classify(resolved, type) ==
    CASE type = "commit" ->
             [next |-> "peel", treeHash |-> "none", commitHash |-> resolved]
      [] type = "tag" -> [next |-> "peel", treeHash |-> "none", commitHash |-> "null"]
      [] type = "tree" -> [next |-> "list", treeHash |-> resolved, commitHash |-> "null"]
      [] OTHER -> [next |-> "throw", treeHash |-> "none", commitHash |-> "null"]

\* resolveGitRef: git cat-file -t <resolvedRef> and the classification.
CatFile ==
    /\ bpc = "catFile"
    /\ IF GitType(resolvedRef) = "missing"
       THEN \* cat-file exits non-zero: "Failed to resolve git ref"
            /\ Throw("GitRepositoryError", "unknownRef", "catch")
            /\ UNCHANGED <<objectType, treeHash, commitHash>>
       ELSE LET c == classify(resolvedRef, GitType(resolvedRef))
            IN  /\ objectType' = GitType(resolvedRef)
                /\ treeHash' = c.treeHash
                /\ commitHash' = c.commitHash
                /\ IF c.next = "throw"
                   THEN Throw("GitRepositoryError", "unsupportedType", "catch")
                   ELSE bpc' = c.next /\ UNCHANGED <<thrown, failure>>
    /\ UNCHANGED <<cacheVars, options, targetRef, commitTimestampMs, lister,
                   tree, resolvedRef, entries, gitManagedFiles, statResults,
                   timestampLookups, showOutcome, otherVars>>

\* resolveGitRef: git rev-parse --verify <resolvedRef>^{tree}, for a tag
\* together with <resolvedRef>^{commit}; Promise.all rejects if either fails.
Peel ==
    /\ bpc = "peel"
    /\ LET t == GitPeel(resolvedRef, "tree")
           c == IF objectType = "tag" THEN GitPeel(resolvedRef, "commit") ELSE commitHash
       IN  IF t = "none" \/ c = "none"
           THEN /\ Throw("GitRepositoryError", "unsupportedType", "catch")
                /\ UNCHANGED <<treeHash, commitHash>>
           ELSE /\ treeHash' = t
                /\ commitHash' = c
                /\ bpc' = "list"
                /\ UNCHANGED <<thrown, failure>>
    /\ UNCHANGED <<cacheVars, options, targetRef, objectType, commitTimestampMs,
                   lister, tree, resolvedRef, entries, gitManagedFiles,
                   statResults, timestampLookups, showOutcome, otherVars>>

\* Faulty variant: the lookup is made whatever the commitHash.
issuesLookupAlways(hash) == TRUE

\* `commitHash ? getCommitTimestampMs(...) : Promise.resolve(null)`
issuesLookup(hash) == hash # "null"

\* buildTreeFromCommit: Promise.all of listFilesAtTree and, when there is a
\* commitHash, getCommitTimestampMs with its catch; then
\* mtimeMs = commitTimestampMs ?? 0 for every entry.
ListFilesAtTree ==
    /\ bpc = "list"
    /\ timestampLookups' = IF issuesLookup(commitHash) THEN timestampLookups + 1
                           ELSE timestampLookups
    /\ \/ \* git ls-tree exits non-zero, whatever becomes of the lookup
          /\ Throw("GitRepositoryError", "listing", "catch")
          /\ showOutcome' = [kind |-> IF issuesLookup(commitHash) THEN "pending"
                                      ELSE "notIssued",
                             seconds |-> 0]
          /\ UNCHANGED <<entries, commitTimestampMs, lister>>
       \/ \E sh \in IF issuesLookup(commitHash) THEN ShowOutcomes
                    ELSE {[kind |-> "notIssued", seconds |-> 0]} :
            LET ts == IF issuesLookup(commitHash)
                      THEN catchToNull(getCommitTimestampMs(sh))
                      ELSE [threw |-> "none", value |-> NullMs]
                mtimeMs == IF ts.value = NullMs THEN 0 ELSE ts.value
            IN  /\ showOutcome' = sh
                /\ IF ts.threw # "none"
                   THEN /\ Throw(ts.threw, "timestamp", "catch")
                        /\ UNCHANGED <<entries, commitTimestampMs, lister>>
                   ELSE /\ \E l \in TreeListings :
                             entries' = [i \in 1..Len(l) |->
                                            [path |-> l[i].path, size |-> l[i].size,
                                             mtimeMs |-> mtimeMs]]
                        /\ commitTimestampMs' = ts.value
                        /\ lister' = "commit"
                        /\ bpc' = "insert"
                        /\ UNCHANGED <<thrown, failure>>
    /\ UNCHANGED <<cacheVars, options, targetRef, objectType, commitHash, tree,
                   resolvedRef, treeHash, gitManagedFiles, statResults, otherVars>>

\* The catch clause of buildRepositoryTree: rethrow unless the error is a
\* GitRepositoryError, fallback is allowed and the ref is HEAD.  The cause of
\* the failure is not an input of the test.
MayFallback(class, allow, ref, cause) ==
    ~(class # "GitRepositoryError" \/ ~allow \/ ref # HEAD)

Catch ==
    /\ bpc = "catch"
    /\ IF MayFallback(thrown, options.allowFallbackToWorkingTree, targetRef, failure)
       THEN /\ bpc' = "workingTree"
            /\ thrown' = "none"
       ELSE /\ bpc' = "threw"
            /\ UNCHANGED thrown
    /\ UNCHANGED <<cacheVars, options, targetRef, objectType, commitHash,
                   commitTimestampMs, failure, lister, treeVars, otherVars>>

\* buildTreeFromWorkingTree: git ls-files.
ListGitManagedFiles ==
    /\ bpc = "workingTree"
    /\ \/ /\ \E l \in ManagedFileLists : gitManagedFiles' = l
          /\ bpc' = "stat"
          /\ lister' = "workingTree"
          /\ UNCHANGED thrown
       \/ /\ bpc' = "threw"
          /\ thrown' = "GitRepositoryError"
          /\ UNCHANGED <<lister, gitManagedFiles>>
    /\ UNCHANGED <<cacheVars, options, targetRef, objectType, commitHash,
                   commitTimestampMs, failure, tree, resolvedRef, treeHash,
                   entries, statResults, timestampLookups, showOutcome, otherVars>>

\* Faulty variant: a vanished file rejects like any other failing stat.
statEntryStrict(gitPath, r) ==
    IF r.code = "ok"
    THEN [threw |-> "none", entry |-> <<[path |-> gitPath, size |-> r.size,
                                          mtimeMs |-> r.mtimeMs]>>]
    ELSE [threw |-> r.code, entry |-> <<>>]

\* The callback mapped over gitManagedFiles: the entry, null (no entry) for
\* ENOENT, the error for any other code.
statEntry(gitPath, r) ==
    IF r.code = "ok"
    THEN [threw |-> "none", entry |-> <<[path |-> gitPath, size |-> r.size,
                                          mtimeMs |-> r.mtimeMs]>>]
    ELSE IF r.code = "ENOENT"
    THEN [threw |-> "none", entry |-> <<>>]
    ELSE [threw |-> r.code, entry |-> <<>>]

\* The non-null elements of fileStats, in order.
RECURSIVE collectEntries(_, _, _)
collectEntries(files, results, i) ==
    IF i > Len(files) THEN <<>>
    ELSE statEntry(files[i], results[i]).entry \o collectEntries(files, results, i + 1)

\* buildTreeFromWorkingTree: Promise.all over the stats of the listed files.
StatFiles ==
    /\ bpc = "stat"
    /\ \E results \in [1..Len(gitManagedFiles) -> StatResults] :
         /\ statResults' = results
         /\ IF \E i \in 1..Len(gitManagedFiles) :
                   statEntry(gitManagedFiles[i], results[i]).threw # "none"
            THEN /\ bpc' = "threw"
                 /\ thrown' = "Error"
                 /\ UNCHANGED entries
            ELSE /\ bpc' = "insert"
                 /\ entries' = collectEntries(gitManagedFiles, results, 1)
                 /\ UNCHANGED thrown
    /\ UNCHANGED <<cacheVars, options, targetRef, objectType, commitHash,
                   commitTimestampMs, failure, lister, tree, resolvedRef, treeHash,
                   gitManagedFiles, timestampLookups, showOutcome, otherVars>>

\* The insertion loop of buildTreeFromCommit and of buildTreeFromWorkingTree.
InsertEntries ==
    /\ bpc = "insert"
    /\ tree' = insertEntries(tree, entries)
    /\ bpc' = "sort"
    /\ UNCHANGED <<cacheVars, options, targetRef, objectType, commitHash,
                   commitTimestampMs, thrown, failure, lister, resolvedRef,
                   treeHash, entries, gitManagedFiles, statResults,
                   timestampLookups, showOutcome, otherVars>>

\* sortChildrenRecursively(rootNode), then aggregateDirectoryMetadata(rootNode).
Passes(ns) ==
    aggregateDirectoryMetadata(sortChildrenRecursively(ns, RootId), RootId).nodes

\* The two passes and the commit time that replaces the root's mtimeMs when
\* it is truthy.
Finish(t, commitTime) ==
    LET aggregated == Passes(t.nodes)
    IN  [t EXCEPT !.nodes =
            IF commitTime # NullMs /\ commitTime # 0
            THEN [aggregated EXCEPT ![RootId].mtimeMs = commitTime]
            ELSE aggregated]

\* The tail of buildRepositoryTree and return rootNode.
SortAndAggregate ==
    /\ bpc = "sort"
    /\ tree' = Finish(tree, commitTimestampMs)
    /\ bpc' = "returned"
    /\ UNCHANGED <<cacheVars, options, targetRef, objectType, commitHash,
                   commitTimestampMs, thrown, failure, lister, resolvedRef,
                   treeHash, entries, gitManagedFiles, statResults,
                   timestampLookups, showOutcome, otherVars>>

InitBuild ==
    /\ defaultRef = HEAD
    /\ allowFallbackToWorkingTree = FALSE
    /\ buildPromises = EmptyMap
    /\ builds = <<>>
    /\ calls = <<>>
    /\ microtasks = <<>>
    /\ options \in [ref : BuildRefs, allowFallbackToWorkingTree : BOOLEAN]
    /\ bpc = "normalizeRepositoryPath"
    /\ targetRef = Undefined
    /\ objectType = "none"
    /\ commitHash = "null"
    /\ commitTimestampMs = NullMs
    /\ thrown = "none"
    /\ failure = "none"
    /\ lister = "none"
    /\ TreeIdle
    /\ OthersIdle

NextBuild ==
    \/ NormalizeRepositoryPath
    \/ ResolveRepoRoot
    \/ RevParseVerify
    \/ CatFile
    \/ Peel
    \/ ListFilesAtTree
    \/ Catch
    \/ ListGitManagedFiles
    \/ StatFiles
    \/ InsertEntries
    \/ SortAndAggregate

SpecBuild == InitBuild /\ [][NextBuild]_vars

\* ---------------------------------------------------------- handleTreeRequest
\* One HTTP request to GET /api/tree or POST /api/tree/refresh.

\* req.query.ref when it is not a string (?ref=a&ref=b gives an array).
QueryArray == <<"array">>
QueryValues == {Undefined, QueryArray} \cup StringsUpTo(MaxRefLen)

\* The errorMessage createTreeRoutes passes for each route.
ErrorMessage(route) ==
    IF route = "GET /api/tree" THEN "Failed to build repository tree"
    ELSE "Failed to refresh repository tree"
Routes == {"GET /api/tree", "POST /api/tree/refresh"}

\* The messages of the errors a handler rejects with.
Messages == {"Failed to resolve git ref: x", "spawn git ENOENT"}

extractRefParam(query) ==
    IF query \notin {Undefined, QueryArray} /\ Len(trim(query)) > 0
    THEN trim(query)
    ELSE Undefined

\* Faulty variant: the 400 branch does not return.
catchBlockFallsThrough(error, errorMessage) ==
    IF error.class = "GitRepositoryError"
    THEN [responses |-> <<[status |-> 400, error |-> error.message],
                          [status |-> 500, error |-> errorMessage]>>,
          logged |-> <<error>>]
    ELSE [responses |-> <<[status |-> 500, error |-> errorMessage]>>,
          logged |-> <<error>>]

\* The catch block: what it sends and what it passes to console.error.
catchBlock(error, errorMessage) ==
    IF error.class = "GitRepositoryError"
    THEN [responses |-> <<[status |-> 400, error |-> error.message]>>,
          logged |-> <<>>]
    ELSE [responses |-> <<[status |-> 500, error |-> errorMessage]>>,
          logged |-> <<error>>]

\* extractRefParam and the call of the handler.
HandleTreeRequest ==
    /\ hpc = "received"
    /\ handlerArg' = extractRefParam(request.query)
    /\ hpc' = "awaitHandler"
    /\ UNCHANGED <<cacheVars, builderVars, treeVars, request, settled, responses,
                   consoleErrors, listingVars, sampleVars, extraVars>>

\* The promise of the handler is fulfilled with a cache entry or rejected.
HandlerSettles ==
    /\ hpc = "awaitHandler"
    /\ settled' \in
           {[state |-> "fulfilled", class |-> "none", message |-> "none"]}
               \cup [state : {"rejected"}, class : {"GitRepositoryError", "Error"},
                     message : Messages]
    /\ hpc' = "resume"
    /\ UNCHANGED <<cacheVars, builderVars, treeVars, request, handlerArg, responses,
                   consoleErrors, listingVars, sampleVars, extraVars>>

\* The continuation of the await: res.json, or the catch block.
Respond ==
    /\ hpc = "resume"
    /\ IF settled.state = "fulfilled"
       THEN /\ responses' = Append(responses, [status |-> 200, error |-> "none"])
            /\ UNCHANGED consoleErrors
       ELSE LET c == catchBlock(settled, ErrorMessage(request.route))
            IN  /\ responses' = responses \o c.responses
                /\ consoleErrors' = consoleErrors \o c.logged
    /\ hpc' = "done"
    /\ UNCHANGED <<cacheVars, builderVars, treeVars, request, handlerArg, settled,
                   listingVars, sampleVars, extraVars>>

InitHttp ==
    /\ CacheIdle
    /\ BuilderIdle
    /\ TreeIdle
    /\ request \in [route : Routes, query : QueryValues]
    /\ hpc = "received"
    /\ handlerArg = Undefined
    /\ settled = [state |-> "pending", class |-> "none", message |-> "none"]
    /\ responses = <<>>
    /\ consoleErrors = <<>>
    /\ ListingIdle
    /\ SampleIdle
    /\ ExtrasIdle

NextHttp ==
    \/ HandleTreeRequest
    \/ HandlerSettles
    \/ Respond

SpecHttp == InitHttp /\ [][NextHttp]_vars

\* ------------------------------------------------------------ listFilesAtTree
\* One git ls-tree --full-tree --long -r subprocess run by runGitCommand, and
\* the parse of what it printed.

Newline == "\n"
Tab == "\t"
blob == <<"b", "l", "o", "b">>
\* The lines git ls-tree --long prints, "<mode> <type> <object> <size>\t<path>"
\* with the size right-aligned: a blob, a submodule (a commit, size "-"), and
\* a blob with a two-digit size.
LsTreeLines ==
    { <<"6", "4", "4", " ">> \o blob \o <<" ", "s", " ", " ", "7", Tab, "p">>,
      <<"1", "6", "0", " ", "c", "o", "m", "m", "i", "t", " ", "s", " ", " ", "-", Tab, "q">>,
      <<"6", "4", "4", " ">> \o blob \o <<" ", "s", " ", "1", "2", Tab, "r">> }

RECURSIVE Flatten(_)
Flatten(ls) == IF ls = <<>> THEN <<>> ELSE Head(ls) \o <<Newline>> \o Flatten(Tail(ls))

\* Everything the subprocess can print: no path is listed twice.
GitOutputs == {Flatten(ls) : ls \in {l \in ListsUpTo(LsTreeLines, MaxLines) : Distinct(l)}}

\* String.prototype.split with a one-character separator.
RECURSIVE split(_, _)
split(s, sep) ==
    IF \A i \in 1..Len(s) : s[i] # sep THEN <<s>>
    ELSE LET i == CHOOSE n \in 1..Len(s) :
                      s[n] = sep /\ \A j \in 1..(n - 1) : s[j] # sep
         IN  <<SubSeq(s, 1, i - 1)>> \o split(SubSeq(s, i + 1, Len(s)), sep)

\* String.prototype.split(/\s+/)
RECURSIVE splitWhitespace(_)
splitWhitespace(s) ==
    IF \A i \in 1..Len(s) : s[i] \notin Whitespace THEN <<s>>
    ELSE LET i == CHOOSE n \in 1..Len(s) :
                      s[n] \in Whitespace /\ \A j \in 1..(n - 1) : s[j] \notin Whitespace
         IN  <<SubSeq(s, 1, i - 1)>>
                 \o splitWhitespace(trimStart(SubSeq(s, i + 1, Len(s))))

Digits == <<"0", "1", "2", "3", "4", "5", "6", "7", "8", "9">>
IsDigit(ch) == \E d \in 1..Len(Digits) : Digits[d] = ch
DigitValue(ch) == (CHOOSE d \in 1..Len(Digits) : Digits[d] = ch) - 1
NaN == -1

\* Number.parseInt(s, 10) on an unsigned string: the value of the leading
\* digits, NaN if there is none.
RECURSIVE parseDigits(_, _)
parseDigits(s, acc) ==
    IF s = <<>> \/ ~IsDigit(Head(s)) THEN acc
    ELSE parseDigits(Tail(s), acc * 10 + DigitValue(Head(s)))
parseInt(s) == IF s = <<>> \/ ~IsDigit(Head(s)) THEN NaN ELSE parseDigits(s, 0)

\* The body of the loop over the lines: the entry a line gives, if any.
parseLine(line) ==
    LET fields == split(line, Tab)
        meta == fields[1]
        filePath == IF Len(fields) >= 2 THEN fields[2] ELSE <<>>
        parts == splitWhitespace(meta)
    IN  IF meta = <<>> \/ filePath = <<>> THEN <<>>
        ELSE IF Len(parts) < 4 THEN <<>>
        ELSE IF parts[2] # blob THEN <<>>
        ELSE LET sizeValue == parts[4]
                 size == IF sizeValue = <<"-">> THEN 0 ELSE parseInt(sizeValue)
             IN  <<[path |-> filePath, size |-> IF size = NaN THEN 0 ELSE size]>>

RECURSIVE parseLines(_)
parseLines(lines) ==
    IF lines = <<>> THEN <<>>
    ELSE LET line == trim(Head(lines))
         IN  (IF Len(line) > 0 THEN parseLine(line) ELSE <<>>) \o parseLines(Tail(lines))

\* listFilesAtTree from the resolved output on.
parseLsTree(output) == parseLines(split(output, Newline))

\* child.stdout.on('data'): stdout += chunk.
Data ==
    /\ lpc = "running"
    /\ \E n \in 1..(Len(gitOutput) - delivered) :
         /\ stdout' = stdout \o SubSeq(gitOutput, delivered + 1, delivered + n)
         /\ delivered' = delivered + n
    /\ UNCHANGED <<cacheVars, builderVars, treeVars, httpVars, gitOutput, lpc,
                   listing, sampleVars, extraVars>>

\* child.on('close'): resolve(stdout) for code 0, else reject.
Close ==
    /\ lpc = "running"
    /\ delivered = Len(gitOutput)
    /\ \E code \in {0, 1} : lpc' = IF code = 0 THEN "resolved" ELSE "rejected"
    /\ UNCHANGED <<cacheVars, builderVars, treeVars, httpVars, gitOutput, delivered,
                   stdout, listing, sampleVars, extraVars>>

\* The continuation of `await runGitCommand(...)` in listFilesAtTree.
ParseListing ==
    /\ lpc = "resolved"
    /\ listing' = parseLsTree(stdout)
    /\ lpc' = "returned"
    /\ UNCHANGED <<cacheVars, builderVars, treeVars, httpVars, gitOutput, delivered,
                   stdout, sampleVars, extraVars>>

InitListing ==
    /\ CacheIdle
    /\ BuilderIdle
    /\ TreeIdle
    /\ HttpIdle
    /\ gitOutput \in GitOutputs
    /\ delivered = 0
    /\ stdout = <<>>
    /\ lpc = "running"
    /\ listing = <<>>
    /\ SampleIdle
    /\ ExtrasIdle

NextListing ==
    \/ Data
    \/ Close
    \/ ParseListing

SpecListing == InitListing /\ [][NextListing]_vars

\* -------------------------------------------------------- listGitManagedFiles
\* One git ls-files --cached --exclude-standard subprocess and the handlers
\* listGitManagedFiles puts on it.
MaxOutputLen == 4
LsFilesChars == {"a", " ", Newline}

\* Everything the subprocess can print, up to MaxOutputLen characters: lines
\* with and without blanks around them, empty lines, a last line with or
\* without its newline.
LsFilesOutputs == ListsUpTo(LsFilesChars, MaxOutputLen)

\* const trimmed = line.trim(); if (trimmed.length > 0) files.push(trimmed)
pushTrimmed(fs, line) ==
    LET trimmed == trim(line)
    IN  IF Len(trimmed) > 0 THEN Append(fs, trimmed) ELSE fs

\* for (const line of lines) ...
RECURSIVE pushLines(_, _)
pushLines(fs, lines) ==
    IF lines = <<>> THEN fs ELSE pushLines(pushTrimmed(fs, Head(lines)), Tail(lines))

\* Faulty variant: every piece of the chunk is pushed and nothing is kept.
onDataKeepsNothing(buf, fs, chunk) ==
    [buffer |-> <<>>, files |-> pushLines(fs, split(buf \o chunk, Newline))]

\* The 'data' handler: buffer += chunk; lines = buffer.split('\n');
\* buffer = lines.pop() ?? ''; then the loop over the lines left.
onData(buf, fs, chunk) ==
    LET lines == split(buf \o chunk, Newline)
    IN  [buffer |-> lines[Len(lines)],
         files |-> pushLines(fs, SubSeq(lines, 1, Len(lines) - 1))]

\* child.stdout.on('data') with the next characters of the output.
FilesData ==
    /\ fpc = "running"
    /\ \E n \in 1..(Len(lsOutput) - lsDelivered) :
         LET r == onData(buffer, pushedFiles,
                         SubSeq(lsOutput, lsDelivered + 1, lsDelivered + n))
         IN  /\ buffer' = r.buffer
             /\ pushedFiles' = r.files
             /\ lsDelivered' = lsDelivered + n
    /\ lsChunks' = lsChunks + 1
    /\ UNCHANGED <<cacheVars, builderVars, treeVars, httpVars, listingVars, sampleVars,
                   lsOutput, fpc, lsExitCode, serverVars, videoVars>>

\* child.on('close'): the unfinished line is pushed, then resolve(files) for
\* code 0 and reject otherwise.
FilesClose ==
    /\ fpc = "running"
    /\ lsDelivered = Len(lsOutput)
    /\ pushedFiles' = IF Len(buffer) > 0 THEN pushTrimmed(pushedFiles, buffer)
                      ELSE pushedFiles
    /\ \E code \in {0, 1} :
         /\ lsExitCode' = code
         /\ fpc' = IF code = 0 THEN "resolved" ELSE "rejected"
    /\ UNCHANGED <<cacheVars, builderVars, treeVars, httpVars, listingVars, sampleVars,
                   lsOutput, lsDelivered, buffer, lsChunks, serverVars, videoVars>>

\* child.on('error'): git could not be spawned; reject(error).
FilesError ==
    /\ fpc = "running"
    /\ lsDelivered = 0
    /\ fpc' = "rejected"
    /\ UNCHANGED <<cacheVars, builderVars, treeVars, httpVars, listingVars, sampleVars,
                   lsOutput, lsDelivered, buffer, pushedFiles, lsExitCode, lsChunks,
                   serverVars, videoVars>>

InitFiles ==
    /\ CacheIdle
    /\ BuilderIdle
    /\ TreeIdle
    /\ HttpIdle
    /\ ListingIdle
    /\ SampleIdle
    /\ lsOutput \in LsFilesOutputs
    /\ lsDelivered = 0
    /\ buffer = <<>>
    /\ pushedFiles = <<>>
    /\ fpc = "running"
    /\ lsExitCode = -1
    /\ lsChunks = 0
    /\ ServerIdle
    /\ VideoIdle

NextFiles ==
    \/ FilesData
    \/ FilesClose
    \/ FilesError

SpecFiles == InitFiles /\ [][NextFiles]_vars

\* ---------------------------------------------------------------- startServer
\* One startServer call: createApp, the awaited refreshTree(gitRef), listen,
\* and the requests served after that.

\* const gitRef = ref ?? 'HEAD'
gitRef == IF serverRef = Undefined THEN HEAD ELSE serverRef

\* createApp(repoPath, gitRef, ref == null, ...)
CreateApp ==
    /\ server = "called"
    /\ defaultRef' = gitRef
    /\ allowFallbackToWorkingTree' = (serverRef = Undefined)
    /\ server' = "created"
    /\ UNCHANGED <<buildPromises, builds, calls, microtasks, builderVars, treeVars,
                   httpVars, listingVars, sampleVars, filesVars, serverRef, repository,
                   videoVars>>

\* await refreshTree(gitRef), up to the suspension on the build.
InitialRefresh ==
    /\ server = "created"
    /\ Enter(gitRef, "refreshTree", MapDelete(buildPromises, resolveRef(gitRef).key))
    /\ server' = "refreshing"
    /\ UNCHANGED <<defaultRef, allowFallbackToWorkingTree, builderVars, treeVars,
                   httpVars, listingVars, sampleVars, filesVars, serverRef, repository,
                   videoVars>>

\* What buildRepositoryTree can do with a build: in a repository without
\* commits no ref resolves, and the build returns a tree only through the
\* fallback its catch clause allows.
CanSettle(b, state) ==
    (repository = "noCommits"
        /\ ~MayFallback("GitRepositoryError", builds[b].allowFallbackToWorkingTree,
                        builds[b].ref, "noCommits"))
        => state = "rejected"

\* The continuation of `await refreshTree(gitRef)`: app.listen, or the
\* rejection of startServer with the error of the build.
Listen ==
    /\ server = "refreshing"
    /\ calls[1].pc \in {"returned", "threw"}
    /\ server' = IF calls[1].pc = "returned" THEN "listening" ELSE "rejected"
    /\ UNCHANGED <<cacheVars, builderVars, treeVars, httpVars, listingVars, sampleVars,
                   filesVars, serverRef, repository, videoVars>>

InitServer ==
    /\ CacheIdle
    /\ BuilderIdle
    /\ TreeIdle
    /\ HttpIdle
    /\ ListingIdle
    /\ SampleIdle
    /\ FilesIdle
    /\ serverRef \in {Undefined, main}
    /\ repository \in {"commits", "noCommits"}
    /\ server = "called"
    /\ VideoIdle

NextServer ==
    \/ CreateApp
    \/ InitialRefresh
    \/ \E b \in BuildIds, s \in {"fulfilled", "rejected"} :
          CanSettle(b, s) /\ BuildSettles(b, s)
    \/ RunMicrotask
    \/ \E c \in CallIds : StatsSettles(c)
    \/ Listen
    \/ \E r \in RequestedRefs : server = "listening" /\ buildTreeForRef(r)
    \/ \E r \in RequestedRefs : server = "listening" /\ refreshTreeForRef(r)

SpecServer == InitServer /\ [][NextServer]_vars

\* ------------------------------------------------------- videoAction frame loop
\* The loop of the video command over commitsToRender: one captureFrame per
\* commit, into the file named after frameNumber.
MaxRequestedFrames == 4

\* Faulty variant: the file is numbered by the position in the loop.
frameNumberByIndex(index, captured) == index + 1

\* const frameNumber = capturedFrames + 1
frameNumber(index, captured) == captured + 1

\* One iteration.  captureFrame navigates, waits and takes the screenshot into
\* frameFile; it resolves with the file written, or rejects with a
\* TimeoutError, the file written or not, or with another error.
Iteration ==
    /\ vpc = "loop"
    /\ loopIndex < requestedFrames
    /\ LET number == frameNumber(loopIndex, capturedFrames)
       IN  \/ /\ frameWrites' = Append(frameWrites, [number |-> number, frame |-> loopIndex,
                                                    captured |-> TRUE])
              /\ capturedFrames' = capturedFrames + 1
              /\ loopIndex' = loopIndex + 1
              /\ UNCHANGED <<skippedFrames, vpc>>
           \/ /\ \/ UNCHANGED frameWrites
                 \/ frameWrites' = Append(frameWrites, [number |-> number, frame |-> loopIndex,
                                                       captured |-> FALSE])
              /\ skippedFrames' = skippedFrames + 1
              /\ loopIndex' = loopIndex + 1
              /\ UNCHANGED <<capturedFrames, vpc>>
           \/ /\ vpc' = "threw"
              /\ UNCHANGED <<frameWrites, capturedFrames, skippedFrames, loopIndex>>
    /\ UNCHANGED <<cacheVars, builderVars, treeVars, httpVars, listingVars, sampleVars,
                   filesVars, serverVars, requestedFrames>>

\* After the loop: no frame at all ends the command, else ffmpeg reads
\* frame-%06d.png.
AfterLoop ==
    /\ vpc = "loop"
    /\ ~(loopIndex < requestedFrames)
    /\ vpc' = IF capturedFrames = 0 THEN "noFrames" ELSE "encode"
    /\ UNCHANGED <<cacheVars, builderVars, treeVars, httpVars, listingVars, sampleVars,
                   filesVars, serverVars, requestedFrames, loopIndex, capturedFrames,
                   skippedFrames, frameWrites>>

InitVideo ==
    /\ CacheIdle
    /\ BuilderIdle
    /\ TreeIdle
    /\ HttpIdle
    /\ ListingIdle
    /\ SampleIdle
    /\ FilesIdle
    /\ ServerIdle
    /\ requestedFrames \in 1..MaxRequestedFrames
    /\ loopIndex = 0
    /\ capturedFrames = 0
    /\ skippedFrames = 0
    /\ frameWrites = <<>>
    /\ vpc = "loop"

NextVideo ==
    \/ Iteration
    \/ AfterLoop

SpecVideo == InitVideo /\ [][NextVideo]_vars

\* -------------------------------------------------------------- sampleCommits
\* The commit list of a branch, oldest first: commit i is the i-th commit.
CommitList(n) == [i \in 1..n |-> i]

\* Array.from(set).sort((a, b) => a - b)
RECURSIVE SortedAscending(_)
SortedAscending(S) ==
    IF S = {} THEN <<>>
    ELSE LET least == CHOOSE x \in S : \A y \in S : x <= y
         IN  <<least>> \o SortedAscending(S \ {least})

\* Faulty variant: the loop starts at frame 1 and never adds index 0.
sampleIndicesFromFrameOne(frameIndex, frameCount, lastIndex, indices) ==
    indices \cup {(f * lastIndex) \div Max(frameCount - 1, 1) : f \in 1..(frameCount - 1)}

\* The loop that fills `indices`; indices are those of the array, from 0.
RECURSIVE sampleIndices(_, _, _, _)
sampleIndices(frameIndex, frameCount, lastIndex, indices) ==
    IF ~(frameIndex < frameCount) THEN indices
    ELSE LET index == (frameIndex * lastIndex) \div Max(frameCount - 1, 1)
         IN  sampleIndices(frameIndex + 1, frameCount, lastIndex,
                           indices \cup {IF index <= lastIndex THEN index ELSE lastIndex})

sampleCommits(list, budget) ==
    IF Len(list) <= budget THEN list
    ELSE LET frameCount == Max(1, budget)
             lastIndex == Len(list) - 1
             indices == sampleIndices(0, frameCount, lastIndex, {}) \cup {lastIndex}
             sorted == SortedAscending(indices)
         IN  [i \in 1..Len(sorted) |-> list[sorted[i] + 1]]

SampleCommits ==
    /\ spc = "called"
    /\ sampled' = sampleCommits(commits, maxFrames)
    /\ spc' = "returned"
    /\ UNCHANGED <<cacheVars, builderVars, treeVars, httpVars, listingVars, commits,
                   maxFrames, extraVars>>

InitSample ==
    /\ CacheIdle
    /\ BuilderIdle
    /\ TreeIdle
    /\ HttpIdle
    /\ ListingIdle
    /\ commits \in {CommitList(n) : n \in 0..MaxCommits}
    /\ maxFrames \in 1..MaxFrames
    /\ sampled = <<>>
    /\ spc = "called"
    /\ ExtrasIdle

NextSample == SampleCommits

SpecSample == InitSample /\ [][NextSample]_vars

\* ===================================================================== claims
Received(c) == calls[c].pc \in {"awaitStats", "returned"}
Resumed(c) == calls[c].pc # "awaitBuild"
NoRefresh == \A c \in CallIds : calls[c].op = "getTree"
Keys == {builds[b].key : b \in BuildIds}
RefreshedKeys == {calls[c].key : c \in {x \in CallIds : calls[x].op = "refreshTree"}}

\* C1: with getTree calls only, a getTree call that arrives while a build for
\* its key is pending starts no build, waits on that very build and, like the
\* call that started it, receives the tree that build produced.
C1_GetTreeCoalesces ==
    NoRefresh =>
        \A c \in CallIds :
            /\ \A b \in calls[c].arrivalPending :
                  /\ ~calls[c].started
                  /\ calls[c].promise = b
                  /\ Cardinality({s \in BuildIds : builds[s].startedBy = c}) = 0
            /\ Received(c) => calls[c].tree = calls[c].promise

\* Two getTree calls, the second arriving during the first one's build, have
\* both returned the tree of that single build.
C1_Witness ==
    /\ NoRefresh
    /\ \E c1, c2 \in CallIds :
          /\ c1 < c2
          /\ calls[c1].started
          /\ calls[c2].arrivalPending = {calls[c1].promise}
          /\ calls[c1].pc = "returned" /\ calls[c2].pc = "returned"
          /\ calls[c1].tree = calls[c1].promise
          /\ calls[c2].tree = calls[c1].promise
          /\ Len(builds) = 1

\* C2: in every interleaving, a getTree call that arrives while the most
\* recently started build for its key is still pending waits on that build
\* and starts none.
C2_JoinsLatestPendingBuild ==
    \A c \in CallIds :
        (calls[c].op = "getTree" /\ calls[c].arrivalLatest \in calls[c].arrivalPending)
            => (~calls[c].started /\ calls[c].promise = calls[c].arrivalLatest)

C4_RefreshAlwaysRebuilds ==
    \A c \in CallIds :
        calls[c].op = "refreshTree" =>
            /\ calls[c].started
            /\ builds[calls[c].promise].startedBy = c
            /\ calls[c].promise > calls[c].arrivalLatest
            /\ \A b \in calls[c].arrivalPending : calls[c].promise # b
            /\ Received(c) => calls[c].tree = calls[c].promise
            /\ calls[c].pc = "threw" => calls[c].error = calls[c].promise

\* Three refreshTree calls for one key have returned their own trees: the
\* first found no build, the second a pending one, the third completed ones.
C4_Witness ==
    \E c1, c2, c3 \in CallIds :
        /\ \A c \in {c1, c2, c3} :
              /\ calls[c].op = "refreshTree"
              /\ calls[c].key = calls[c1].key
              /\ calls[c].pc = "returned"
              /\ calls[c].tree = calls[c].promise
        /\ calls[c1].arrivalLatest = 0
        /\ calls[c2].arrivalPending = {calls[c1].promise}
        /\ calls[c3].arrivalLatest = calls[c2].promise
        /\ calls[c3].arrivalPending = {}

\* C5: once a build is rejected, every call that waited on it and has resumed
\* threw that build's error; builds are started by calls only, one per call at
\* most; a rejected build whose waiters have resumed is not in the map; and a
\* getTree call that finds the key's latest build rejected starts a build.
C5_FailureIsSharedAndForgotten ==
    /\ \A c \in CallIds :
          (builds[calls[c].promise].state = "rejected" /\ Resumed(c))
              => (calls[c].pc = "threw" /\ calls[c].error = calls[c].promise)
    /\ \A b \in BuildIds :
          /\ builds[b].startedBy \in CallIds
          /\ calls[builds[b].startedBy].promise = b
    /\ \A c \in CallIds : Cardinality({b \in BuildIds : builds[b].startedBy = c}) <= 1
    /\ \A b \in BuildIds :
          (builds[b].state = "rejected" /\ Waiters(b) = {})
              => \A k \in DOMAIN buildPromises : buildPromises[k] # b
    /\ \A c \in CallIds :
          ( /\ calls[c].op = "getTree"
            /\ calls[c].arrivalLatest # 0
            /\ calls[c].arrivalLatest \notin calls[c].arrivalPending
            /\ builds[calls[c].arrivalLatest].state = "rejected" )
              => (calls[c].started /\ calls[c].promise > calls[c].arrivalLatest)

\* A build with a coalesced caller was rejected, both callers threw its
\* error, and the next getTree for the key started a new build.
C5_Witness ==
    \E c1, c2, c3 \in CallIds :
        /\ c1 < c2 /\ c2 < c3
        /\ calls[c1].started
        /\ ~calls[c2].started /\ calls[c2].promise = calls[c1].promise
        /\ builds[calls[c1].promise].state = "rejected"
        /\ calls[c1].pc = "threw" /\ calls[c1].error = calls[c1].promise
        /\ calls[c2].pc = "threw" /\ calls[c2].error = calls[c1].promise
        /\ calls[c3].op = "getTree" /\ calls[c3].key = calls[c1].key
        /\ calls[c3].started

IsTrimmed(k, r) ==
    \E i, j \in 1..Len(r) :
        /\ i <= j
        /\ k = SubSeq(r, i, j)
        /\ r[i] \notin Whitespace /\ r[j] \notin Whitespace
        /\ \A n \in 1..Len(r) : (n < i \/ n > j) => r[n] \in Whitespace
IsBlank(r) == \A n \in 1..Len(r) : r[n] \in Whitespace

\* C7 as stated: a call that starts a build with an explicit ref r uses r
\* unchanged as key and as the builder's ref, with fallback disabled; a call
\* without a ref uses the default ref and the configured fallback flag.
C7_ExplicitRefVerbatim ==
    \A c \in CallIds :
        calls[c].started =>
            LET b == builds[calls[c].promise]
                r == calls[c].requestedRef
            IN  IF r # Undefined
                THEN /\ calls[c].key = r
                     /\ b.ref = r
                     /\ b.allowFallbackToWorkingTree = FALSE
                ELSE /\ calls[c].key = defaultRef
                     /\ b.ref = defaultRef
                     /\ b.allowFallbackToWorkingTree = allowFallbackToWorkingTree

\* C7 amended: an explicit ref that is not blank gives, as key and as the
\* builder's ref, the ref with leading and trailing whitespace removed, with
\* fallback disabled; no ref, or an empty or all-whitespace ref, gives the
\* default ref and the configured fallback flag.
C7_ExplicitRefTrimmed ==
    \A c \in CallIds :
        calls[c].started =>
            LET b == builds[calls[c].promise]
                r == calls[c].requestedRef
            IN  IF r # Undefined /\ ~IsBlank(r)
                THEN /\ IsTrimmed(calls[c].key, r)
                     /\ b.ref = calls[c].key
                     /\ b.allowFallbackToWorkingTree = FALSE
                ELSE /\ calls[c].key = defaultRef
                     /\ b.ref = defaultRef
                     /\ b.allowFallbackToWorkingTree = allowFallbackToWorkingTree

\* With fallback configured, a call with the ref " m " has started a build
\* for "m".
C7_Witness ==
    /\ allowFallbackToWorkingTree
    /\ \E c \in CallIds :
          /\ calls[c].requestedRef = <<" ", "m", " ">>
          /\ calls[c].started
          /\ builds[calls[c].promise].ref = <<"m">>
          /\ builds[calls[c].promise].state # "pending"

\* C8: a call made with an explicit ref never receives the tree of a build
\* that ran with working-tree fallback enabled.
C8_ExplicitRefNeverGetsFallbackBuild ==
    \A c \in CallIds :
        (calls[c].requestedRef # Undefined /\ ~IsBlank(calls[c].requestedRef) /\ Received(c))
            => ~builds[calls[c].tree].allowFallbackToWorkingTree

\* C9: the working-tree lister runs only when the ref is HEAD, fallback is
\* allowed and resolution failed for lack of a first commit; a build in which
\* any other step failed does not return a tree.
C9_FallbackOnlyWithoutCommits ==
    LET eligible == /\ targetRef = HEAD
                    /\ options.allowFallbackToWorkingTree
                    /\ failure = "noCommits"
    IN  /\ (bpc = "workingTree" \/ lister = "workingTree") => eligible
        /\ (bpc \in {"sort", "returned"} /\ failure # "none") => eligible

\* C10: every call waits on a build that was started for the call's own ref,
\* calls with different keys never share a build, a getTree call finding no
\* build for its key in the map starts one whatever other keys are building,
\* and a received tree comes from a build for the call's key.
C10_KeysAreSeparate ==
    /\ \A c \in CallIds :
          /\ builds[calls[c].promise].ref = calls[c].refForBuild
          /\ builds[calls[c].promise].key = calls[c].key
          /\ Received(c) => builds[calls[c].tree].ref = calls[c].refForBuild
    /\ \A c1, c2 \in CallIds :
          calls[c1].refForBuild # calls[c2].refForBuild
              => calls[c1].promise # calls[c2].promise

\* A getTree call has returned its tree while an earlier getTree call for
\* another key is still waiting on its own pending build.
C10_Witness ==
    \E c1, c2 \in CallIds :
        /\ c1 < c2
        /\ calls[c1].op = "getTree" /\ calls[c2].op = "getTree"
        /\ calls[c1].key # calls[c2].key
        /\ calls[c1].pc = "awaitBuild"
        /\ builds[calls[c1].promise].state = "pending"
        /\ calls[c2].started
        /\ calls[c2].pc = "returned"
        /\ calls[c2].tree = calls[c2].promise

\* Every build has settled and no call is suspended on a build.
Quiescent ==
    /\ \A b \in BuildIds : builds[b].state # "pending"
    /\ \A c \in CallIds : Resumed(c)

\* C27: when every build has settled and every call that waited on a build
\* has resumed, buildPromises is empty.
C27_QuiescentMapIsEmpty ==
    Quiescent => buildPromises = EmptyMap

\* Two builds of one key, the second started by a refreshTree call while the
\* first was pending with a coalesced caller, have settled, the three calls
\* have resumed, and the map is empty.
C27_Witness ==
    /\ Quiescent
    /\ Len(calls) = 3
    /\ Len(builds) = 2
    /\ builds[1].key = builds[2].key
    /\ calls[2].promise = 1 /\ ~calls[2].started
    /\ calls[3].op = "refreshTree" /\ calls[3].arrivalPending = {1}
    /\ buildPromises = EmptyMap

Completed(c) == c \in CallIds /\ calls[c].pc \in {"returned", "threw"}

\* C28: when queued continuations run and every started build and every
\* started stats collection settles, every getTree and refreshTree call that
\* was made eventually returns or throws.
C28_EveryCallCompletes ==
    \A c \in 1..MaxLiveCalls : (c \in CallIds) ~> Completed(c)

\* A refreshTree call arrived while the build of an earlier call for the same
\* key was pending; the first build fulfilled and the second was rejected,
\* and the first call has returned and the second has thrown.
C28_Witness ==
    /\ Len(calls) = 2
    /\ calls[2].op = "refreshTree"
    /\ calls[2].key = calls[1].key
    /\ calls[2].arrivalPending = {1}
    /\ builds[1].state = "fulfilled"
    /\ builds[2].state = "rejected"
    /\ calls[1].pc = "returned"
    /\ calls[2].pc = "threw"

\* ------------------------------------------------------------ returned trees
Returned == bpc = "returned"
Directories == {n \in DOMAIN tree.nodes : tree.nodes[n].type = "directory"}
Files == {n \in DOMAIN tree.nodes : tree.nodes[n].type = "file"}
Children(n) == {tree.nodes[n].children[i] : i \in 1..Len(tree.nodes[n].children)}

\* The files reached from n through children.
RECURSIVE DescendantFiles(_)
DescendantFiles(n) ==
    IF tree.nodes[n].type = "file" THEN {n}
    ELSE UNION {DescendantFiles(k) : k \in Children(n)}

RECURSIVE SumOfSizes(_)
SumOfSizes(S) ==
    IF S = {} THEN 0
    ELSE LET n == CHOOSE x \in S : TRUE
         IN  tree.nodes[n].size + SumOfSizes(S \ {n})

\* C11: in a returned tree every directory, the root included, has as size
\* the sum of the sizes of the files below it and, when there is a file below
\* it, as modification time the greatest modification time among them.
C11_DirectoriesAggregateDescendants ==
    Returned =>
        \A d \in Directories :
            LET below == DescendantFiles(d)
            IN  /\ tree.nodes[d].size = SumOfSizes(below)
                /\ below # {} =>
                      /\ \E f \in below : tree.nodes[d].mtimeMs = tree.nodes[f].mtimeMs
                      /\ \A f \in below : tree.nodes[d].mtimeMs >= tree.nodes[f].mtimeMs

\* A working-tree build returned three files; a directory other than the root
\* holds a file and, one level down, a file modified later, and carries the
\* later time and the size of both.
C11_Witness ==
    /\ Returned
    /\ lister = "workingTree"
    /\ tree.nodes[RootId].size = 3
    /\ \E d \in Directories \ {RootId} :
          /\ tree.nodes[d].size = 2
          /\ tree.nodes[d].mtimeMs = 2000
          /\ \E f, g \in DescendantFiles(d) :
                /\ tree.nodes[f].mtimeMs = 1000
                /\ tree.nodes[g].mtimeMs = 2000
                /\ tree.nodes[g].depth = tree.nodes[f].depth + 1

\* C12: in a returned tree the children of every directory, the root
\* included, have all directories before all files, and the names within
\* each of the two groups ascend in the order localeCompare gives.
C12_ChildrenAreOrdered ==
    Returned =>
        \A d \in Directories :
            LET kids == tree.nodes[d].children
            IN  \A i, j \in 1..Len(kids) :
                    i < j =>
                        LET a == tree.nodes[kids[i]]
                            b == tree.nodes[kids[j]]
                        IN  /\ ~(a.type = "file" /\ b.type = "directory")
                            /\ a.type = b.type => localeCompare(a.name, b.name) < 0

\* The root of a returned tree lists directory c, then the files b and B,
\* and B was the first entry inserted.
C12_Witness ==
    /\ Returned
    /\ Len(entries) = 3
    /\ entries[1].path = <<"B">>
    /\ tree.nodes[RootId].children =
           <<makeId(<<"c">>, "directory"), makeId(<<"b">>, "file"), makeId(<<"B">>, "file")>>

\* Every order the elements of s can be put in.
Orderings(s) ==
    {[i \in 1..Len(s) |-> s[f[i]]] :
        f \in {g \in [1..Len(s) -> 1..Len(s)] : \A i, j \in 1..Len(s) : g[i] = g[j] => i = j}}

\* C13: the entries of a build have distinct paths, and inserting them in any
\* other order and running the two passes gives the same nodes, with the
\* same fields and the same child order, as the passes give on the tree the
\* build has just filled.
C13_InsertionOrderIsImmaterial ==
    (bpc = "sort" /\ Distinct([i \in 1..Len(entries) |-> entries[i].path])) =>
        \A p \in Orderings(entries) :
            Passes(insertEntries(NewTree, p).nodes) = Passes(tree.nodes)

\* Three files with different modification times were inserted, and another
\* order of insertion gives a different tree before the passes.
C13_Witness ==
    /\ bpc = "sort"
    /\ Len(entries) = 3
    /\ \E i, j \in 1..3 : entries[i].mtimeMs # entries[j].mtimeMs
    /\ \E p \in Orderings(entries) : insertEntries(NewTree, p).nodes # tree.nodes

\* C14: when resolveGitRef returns, the ref names a commit, a tag of a commit
\* or a tree, and the result is the commit's tree with the commit, the tagged
\* commit's tree with the tagged commit, or the tree itself with no commit;
\* when the ref names no object, a tag of something else or any other type,
\* it throws a GitRepositoryError and has produced no tree id.
C14_ResolveGitRefOutcomes ==
    /\ bpc = "list" =>
          /\ thrown = "none"
          /\ CASE GitType(resolvedRef) = "commit" ->
                      /\ treeHash = TreeOf(resolvedRef)
                      /\ commitHash = resolvedRef
               [] GitType(resolvedRef) = "tag" ->
                      /\ GitType(TagTarget(resolvedRef)) = "commit"
                      /\ treeHash = TreeOf(TagTarget(resolvedRef))
                      /\ commitHash = TagTarget(resolvedRef)
               [] GitType(resolvedRef) = "tree" ->
                      /\ treeHash = resolvedRef
                      /\ commitHash = "null"
               [] OTHER -> FALSE
    /\ (bpc = "catch" /\ failure \in {"noCommits", "unknownRef", "unsupportedType"}) =>
          /\ thrown = "GitRepositoryError"
          /\ treeHash = "none"
    /\ ( /\ bpc \notin {"normalizeRepositoryPath", "resolveRepoRoot", "revParse",
                         "catFile", "peel"}
         /\ failure \notin {"notADirectory", "stat", "repositoryNotFound", "spawn"}
         /\ \/ resolvedRef = "none"
            \/ GitType(resolvedRef) \in {"blob", "missing"}
            \/ GitType(resolvedRef) = "tag" /\ GitType(TagTarget(resolvedRef)) # "commit" ) =>
          /\ failure \in {"noCommits", "unknownRef", "unsupportedType"}
          /\ lister # "commit"

\* resolveGitRef has returned for a ref that names the tag of the commit.
C14_Witness ==
    /\ bpc = "list"
    /\ resolvedRef = "g1"
    /\ objectType = "tag"
    /\ commitHash = "c1"
    /\ treeHash = "t1"

\* C15: a commit build whose ref names a tree has made no commit-timestamp
\* lookup, gives every entry the modification time 0, and returns a tree
\* whose files all have modification time 0.
C15_RawTreeHasNoTimestamp ==
    (lister = "commit" /\ objectType = "tree") =>
        /\ commitHash = "null"
        /\ timestampLookups = 0
        /\ \A i \in 1..Len(entries) : entries[i].mtimeMs = 0
        /\ Returned => \A f \in Files : tree.nodes[f].mtimeMs = 0

\* A build for a ref naming the tree returned two files or more.
C15_Witness ==
    /\ Returned
    /\ lister = "commit"
    /\ resolvedRef = "t1"
    /\ objectType = "tree"
    /\ Cardinality(Files) >= 2
    /\ timestampLookups = 0

LookupFailed == showOutcome.kind \in {"notANumber", "nonZeroExit", "spawnError"}

\* C16: when the commit-timestamp lookup failed, by a failing git command,
\* a git that cannot be spawned or an unusable output, the build has no
\* error from it, and if the listing succeeded the build goes on without an
\* error, with modification time 0 for every entry and every returned file.
C16_TimestampFailureIsRecovered ==
    LookupFailed =>
        /\ failure # "timestamp"
        /\ failure = "none" =>
              /\ thrown = "none"
              /\ bpc \in {"insert", "sort", "returned"}
              /\ commitTimestampMs = NullMs
              /\ \A i \in 1..Len(entries) : entries[i].mtimeMs = 0
              /\ Returned => \A f \in Files : tree.nodes[f].mtimeMs = 0

\* A commit build whose git show exited non-zero returned a tree with files.
C16_Witness ==
    /\ Returned
    /\ lister = "commit"
    /\ showOutcome.kind = "nonZeroExit"
    /\ thrown = "none"
    /\ Files # {}
    /\ \A f \in Files : tree.nodes[f].mtimeMs = 0

Statted == lister = "workingTree" /\ bpc # "stat"
Vanished == {i \in 1..Len(statResults) : statResults[i].code = "ENOENT"}
Present == {i \in 1..Len(statResults) : statResults[i].code = "ok"}

\* C17: in a working-tree build in which every stat either succeeded or found
\* the file gone, the build has no error, and the files of the returned tree
\* are exactly the listed files that were still there.
C17_VanishedFilesAreSkipped ==
    (Statted /\ Vanished \cup Present = 1..Len(gitManagedFiles)) =>
        /\ thrown = "none"
        /\ bpc \in {"insert", "sort", "returned"}
        /\ Returned =>
              {tree.nodes[f].relativePath : f \in Files}
                  = {gitManagedFiles[i] : i \in Present}

\* A working-tree build returned a tree holding the one file that was still
\* there out of three listed.
C17_Witness ==
    /\ Returned
    /\ lister = "workingTree"
    /\ Cardinality(Vanished) = 2
    /\ Cardinality(Present) = 1
    /\ Cardinality(Files) = 1

\* The nodes that hold n in their children, and how often n is held at all.
Parents(n) == {p \in DOMAIN tree.nodes : n \in Children(p)}
Occurrences(n) ==
    Cardinality({pi \in (DOMAIN tree.nodes) \X (1..MaxEntries) :
                    /\ pi[2] <= Len(tree.nodes[pi[1]].children)
                    /\ tree.nodes[pi[1]].children[pi[2]] = n})

\* C21: a returned tree has one root, the only node that is nobody's child,
\* which is a directory at depth 0; every child is one level deeper than its
\* parent; and a build of no entries returns a root with no children and
\* size 0.
C21_OneRootAndDepths ==
    Returned =>
        /\ RootId \in Directories
        /\ tree.nodes[RootId].depth = 0
        /\ \A n \in DOMAIN tree.nodes : (Parents(n) = {}) <=> (n = RootId)
        /\ \A p \in DOMAIN tree.nodes : \A k \in Children(p) :
              tree.nodes[k].depth = tree.nodes[p].depth + 1
        /\ entries = <<>> =>
              /\ tree.nodes[RootId].children = <<>>
              /\ tree.nodes[RootId].size = 0

\* A returned tree with a file at depth 3 below two nested directories.
C21_Witness ==
    /\ Returned
    /\ \E f \in Files : tree.nodes[f].depth = 3
    /\ \E d \in Directories : tree.nodes[d].depth = 2

\* The directory prefixes of the paths of the entries.
DirectoryPaths ==
    UNION {{SubSeq(entries[i].path, 1, k) : k \in 1..(Len(entries[i].path) - 1)} :
              i \in 1..Len(entries)}

\* C22: in a returned tree every node is held once, by one parent, under the
\* id made of its type and path; there is one directory node per directory
\* prefix of the entries and one file node per path of the entries, also when
\* the entries name a path more than once.
C22_IdsAreUnique ==
    Returned =>
        /\ \A n \in DOMAIN tree.nodes :
              /\ tree.nodes[n].id = n
              /\ n = makeId(tree.nodes[n].relativePath, tree.nodes[n].type)
              /\ Occurrences(n) = IF n = RootId THEN 0 ELSE 1
        /\ {tree.nodes[f].relativePath : f \in Files}
              = {entries[i].path : i \in 1..Len(entries)}
        /\ Cardinality(Files) = Cardinality({entries[i].path : i \in 1..Len(entries)})
        /\ {tree.nodes[d].relativePath : d \in Directories \ {RootId}} = DirectoryPaths
        /\ Cardinality(Directories \ {RootId}) = Cardinality(DirectoryPaths)

\* A working-tree build whose listing named c/d/a twice and c/a once: one
\* file node for c/d/a, and the directory c made once for both paths.
C22_Witness ==
    /\ Returned
    /\ lister = "workingTree"
    /\ [i \in 1..Len(entries) |-> entries[i].path]
          = << <<"c", "a">>, <<"c", "d", "a">>, <<"c", "d", "a">> >>
    /\ Cardinality(Files) = 2
    /\ Cardinality(Directories) = 3

\* C23: the passes start on a tree that holds every entry and in which no
\* directory has a size yet; a build that falls back starts the working-tree
\* build on a tree that holds the root alone, so that the returned tree has
\* the files of the working-tree entries and no others.
C23_PassesRunOnTheFullTree ==
    /\ bpc = "sort" =>
          /\ {tree.nodes[f].relativePath : f \in Files}
                = {entries[i].path : i \in 1..Len(entries)}
          /\ \A d \in Directories : tree.nodes[d].size = 0
    /\ bpc \in {"catch", "workingTree", "stat", "insert"} => tree = NewTree
    /\ (Returned /\ lister = "workingTree") =>
          {tree.nodes[f].relativePath : f \in Files}
              = {gitManagedFiles[i] : i \in Present}

\* A build whose commit build failed, for a repository without commits, and
\* whose working-tree build returned a directory aggregated from two files.
C23_Witness ==
    /\ Returned
    /\ failure = "noCommits"
    /\ lister = "workingTree"
    /\ Len(entries) = 3
    /\ \E d \in Directories \ {RootId} :
          /\ Cardinality(DescendantFiles(d)) = 2
          /\ tree.nodes[d].size = SumOfSizes(DescendantFiles(d))

\* C24: in a returned tree every directory but the root has a file below it,
\* in a commit build and in a working-tree build with vanished files alike.
C24_NoEmptyDirectory ==
    Returned => \A d \in Directories \ {RootId} : DescendantFiles(d) # {}

\* A working-tree build in which a/B and c/d/a had vanished and c/a had not:
\* the tree has the directory c, and neither a nor c/d.
C24_Witness ==
    /\ Returned
    /\ lister = "workingTree"
    /\ gitManagedFiles = << <<"a", "B">>, <<"c", "a">>, <<"c", "d", "a">> >>
    /\ Vanished = {1, 3}
    /\ Directories = {RootId, makeId(<<"c">>, "directory")}

\* The place of a commit in the list given to sampleCommits.
PositionOf(x) == CHOOSE i \in 1..Len(commits) : commits[i] = x

\* C25: of a list longer than maxFrames sampleCommits returns commits of the
\* list, each once and in the order of the list, the first one first and the
\* last one last; a list that is not longer is returned as it is.
C25_SampleIsOrderedSubsequence ==
    spc = "returned" =>
        IF Len(commits) > maxFrames
        THEN /\ \A i \in 1..Len(sampled) : sampled[i] \in Range(commits)
             /\ \A i, j \in 1..Len(sampled) :
                   i < j => PositionOf(sampled[i]) < PositionOf(sampled[j])
             /\ Len(sampled) >= 1
             /\ sampled[1] = commits[1]
             /\ sampled[Len(sampled)] = commits[Len(commits)]
        ELSE sampled = commits

\* Nine commits sampled down to four, with commits left out in between.
C25_Witness ==
    /\ spc = "returned"
    /\ Len(commits) = 9
    /\ maxFrames = 4
    /\ Len(sampled) = 4
    /\ sampled # SubSeq(commits, 1, 4)

\* The non-empty trimmed lines of a whole output, in order.
IsNotEmpty(line) == line # <<>>
NonEmptyTrimmedLines(out) ==
    LET lines == split(out, Newline)
    IN  SelectSeq([i \in 1..Len(lines) |-> trim(lines[i])], IsNotEmpty)

\* C26: the list listGitManagedFiles delivers is, however the output came in
\* chunks, the non-empty trimmed lines of the whole output in order, a last
\* line without newline included; and a list is delivered only after the
\* subprocess exited with code 0.
C26_ChunkingIsImmaterial ==
    fpc = "resolved" =>
        /\ pushedFiles = NonEmptyTrimmedLines(lsOutput)
        /\ lsExitCode = 0

\* The output "a\n a" arrived in three chunks, one of them ending inside the
\* second line, and the two files a and a were delivered.
C26_Witness ==
    /\ fpc = "resolved"
    /\ lsOutput = <<"a", Newline, " ", "a">>
    /\ lsChunks = 3
    /\ pushedFiles = << <<"a">>, <<"a">> >>

\* C29: when startServer was called without a ref, the build it awaits before
\* listening was started with working-tree fallback allowed.
C29_StartupBuildAllowsFallback ==
    (serverRef = Undefined /\ server \in {"refreshing", "listening", "rejected"}) =>
        builds[1].allowFallbackToWorkingTree

\* The writes made by frames that were captured.
CapturedWrites == {w \in 1..Len(frameWrites) : frameWrites[w].captured}

\* C30: the files of the captured frames have the numbers 1..capturedFrames,
\* one frame per number and in the order of the frames, whatever frames timed
\* out in between; and no file of a captured frame is written again.
C30_FramesAreNumberedConsecutively ==
    /\ {frameWrites[w].number : w \in CapturedWrites} = 1..capturedFrames
    /\ Cardinality(CapturedWrites) = capturedFrames
    /\ \A v, w \in CapturedWrites :
          v < w => /\ frameWrites[v].number < frameWrites[w].number
                   /\ frameWrites[v].frame < frameWrites[w].frame
    /\ \A w \in CapturedWrites : \A v \in 1..Len(frameWrites) :
          v > w => frameWrites[v].number # frameWrites[w].number
    /\ capturedFrames + skippedFrames = loopIndex

\* Of four frames the second and the third timed out, and the first and the
\* fourth are in the files 1 and 2.
C30_Witness ==
    /\ vpc = "encode"
    /\ requestedFrames = 4
    /\ skippedFrames = 2
    /\ capturedFrames = 2
    /\ \E v, w \in CapturedWrites :
          /\ frameWrites[v].frame = 0 /\ frameWrites[v].number = 1
          /\ frameWrites[w].frame = 3 /\ frameWrites[w].number = 2

\* C18: a request has no response before its handler has settled and one
\* response after: status 400 with the error's message when the handler
\* rejected with a GitRepositoryError, status 500 with the route's fixed
\* message, which is not the error's, when it rejected with anything else.
C18_ErrorsMapToStatus ==
    /\ hpc \in {"received", "awaitHandler", "resume"} => responses = <<>>
    /\ hpc = "done" =>
          /\ Len(responses) = 1
          /\ (settled.state = "rejected" /\ settled.class = "GitRepositoryError") =>
                responses[1] = [status |-> 400, error |-> settled.message]
          /\ (settled.state = "rejected" /\ settled.class # "GitRepositoryError") =>
                /\ responses[1] = [status |-> 500, error |-> ErrorMessage(request.route)]
                /\ responses[1].error # settled.message
                /\ consoleErrors = <<settled>>

\* A refresh request for " m" whose handler rejected with a
\* GitRepositoryError was answered with status 400.
C18_Witness ==
    /\ hpc = "done"
    /\ request = [route |-> "POST /api/tree/refresh", query |-> <<" ", "m">>]
    /\ handlerArg = <<"m">>
    /\ settled.class = "GitRepositoryError"
    /\ Len(responses) = 1
    /\ responses[1].status = 400

\* C19: while git ls-tree is running, the output held and not yet parsed
\* contains no complete line.
C19_BufferIsOnePartialLine ==
    lpc = "running" => \A i \in 1..Len(stdout) : stdout[i] # Newline

\* C20: sampleCommits returns at most maxFrames commits.
C20_AtMostMaxFrames ==
    spc = "returned" => Len(sampled) <= maxFrames

====
